---- MODULE Spec2Model ----
(***************************************************************************)
(* State-machine model of the taskmaster backend: the user store, the      *)
(* JWT-guarded task view set, the profile / change-password views and the  *)
(* password-reset views.  Every HTTP handler is one action; the response   *)
(* of the last request is kept in the variable resp.                       *)
(***************************************************************************)
EXTENDS Integers, Sequences, FiniteSets, TLC

VARIABLES
    now,      \* the server clock, in ticks
    users,    \* CustomUser table: pk -> row
    tasks,    \* Task table: id -> row
    nextId,   \* the Task table's AUTOINCREMENT counter
    session,  \* per client: the token pair it got from the last login
    outbox,   \* reset links mailed so far (django.core.mail outbox)
    stale,    \* history: mailed links whose user changed password since
    used,     \* history: links a confirm has succeeded with
    resp,     \* the last request and its response
    inflight  \* per worker: the request it has read the row for, not yet saved

vars == <<now, users, tasks, nextId, session, outbox, stale, used, resp, inflight>>

----------------------------------------------------------------------------
(* Bounds of the model *)

MaxUsers == 2
MaxTasks == 2
MaxTime == 2
MaxClients == 1
MaxPwChanges == 2
MaxMails == 1
MaxWorkers == 2

(* Settings, in clock ticks *)
ACCESS_TOKEN_LIFETIME == 1
REFRESH_TOKEN_LIFETIME == 2
PASSWORD_RESET_TIMEOUT == 1

Clients == 1..MaxClients
Workers == 1..MaxWorkers
UserIds == 1..MaxUsers
Names == <<"alice", "bob", "carol", "dave">>
Usernames == {Names[i] : i \in UserIds}
Passwords == {"p1", "p2"}
Emails == <<"alice@x.com", "bob@x.com", "carol@x.com", "dave@x.com">>

HTTP_200_OK == 200
HTTP_201_CREATED == 201
HTTP_204_NO_CONTENT == 204
HTTP_400_BAD_REQUEST == 400
HTTP_401_UNAUTHORIZED == 401
HTTP_404_NOT_FOUND == 404
HTTP_500_INTERNAL_SERVER_ERROR == 500

----------------------------------------------------------------------------
(* Credentials a request can carry in its Authorization header *)

NoCred == [kind |-> "none", type |-> "", user |-> 0, exp |-> 0, sig |-> ""]
MalformedCred == [kind |-> "malformed", type |-> "", user |-> 0, exp |-> 0, sig |-> ""]
Jwt(type, u, exp, sig) == [kind |-> "jwt", type |-> type, user |-> u, exp |-> exp, sig |-> sig]

\* AccessToken.for_user / RefreshToken.for_user: exp = now + lifetime
AccessFor(u) == Jwt("access", u, now + ACCESS_TOKEN_LIFETIME, "ok")
RefreshFor(u) == Jwt("refresh", u, now + REFRESH_TOKEN_LIFETIME, "ok")

NoSession == [access |-> NoCred, refresh |-> NoCred]

\* Token verification: signature, type tag and exp (PyJWT rejects exp <= now)
TokenValid_offbyone(c, type) ==
    c.kind = "jwt" /\ c.sig = "ok" /\ c.type = type /\ c.exp >= now
TokenValid_unsigned(c, type) ==
    c.kind = "jwt" /\ c.type = type /\ c.exp > now
TokenValid(c, type) ==
    c.kind = "jwt" /\ c.sig = "ok" /\ c.type = type /\ c.exp > now

\* JWTAuthentication.authenticate: the user id of a valid access token whose
\* user exists; 0 when there is no header (the request stays anonymous) or
\* when the token is refused (AuthenticationFailed / InvalidToken)
JWTAuthentication(c) ==
    IF TokenValid(c, "access") /\ c.user \in DOMAIN users THEN c.user ELSE 0

\* permissions.IsAuthenticated
IsAuthenticated(u) == u # 0

\* The guard DRF runs before a handler of a view with
\* authentication_classes = [JWTAuthentication] and
\* permission_classes = [IsAuthenticated]: a refused header raises in
\* perform_authentication, an anonymous request fails the permission check
Admitted(c) ==
    IF c.kind = "none" THEN IsAuthenticated(0)
    ELSE IsAuthenticated(JWTAuthentication(c))

AuthDetail(c) ==
    IF c.kind = "none" THEN "Authentication credentials were not provided."
    ELSE IF c.kind = "malformed"
         THEN "Authorization header must contain two space-delimited values"
    ELSE IF TokenValid(c, "access") THEN "User not found"
    ELSE "Given token not valid for any token type"

Unauthorized(c) == [detail |-> AuthDetail(c)]

Response(op, c, u, id, data, status, body) ==
    [op |-> op, cred |-> c, user |-> u, id |-> id, data |-> data,
     status |-> status, body |-> body]

NoData == [none |-> TRUE]

\* No request is being answered (at start, and while only time passes)
Idle == Response("none", NoCred, 0, 0, NoData, 0, NoData)

\* A worker that is between requests
NoRequest == [op |-> "none"]

----------------------------------------------------------------------------
(* Password hashing: set_password draws a fresh salt, so two hashes of the *)
(* same raw password differ.  The salt of a user's n-th password is n.     *)

make_password_unsalted(raw, salt) == [pw |-> raw, salt |-> 0]
make_password(raw, salt) == [pw |-> raw, salt |-> salt]
check_password(user, raw) == user.password.pw = raw

set_password_not_stored(user, raw) == user
set_password(user, raw) ==
    [user EXCEPT !.password = make_password(raw, user.password.salt + 1)]

----------------------------------------------------------------------------
Init ==
    /\ now = 0
    /\ users = <<>>
    /\ tasks = <<>>
    /\ nextId = 1
    /\ session = [c \in Clients |-> NoSession]
    /\ outbox = {}
    /\ stale = {}
    /\ used = {}
    /\ resp = Idle
    /\ inflight = [w \in Workers |-> NoRequest]

Tick ==
    /\ now < MaxTime
    /\ now' = now + 1
    /\ resp' = Idle
    /\ UNCHANGED <<users, tasks, nextId, session, outbox, stale, used, inflight>>

----------------------------------------------------------------------------
(* Registration: RegisterView.create *)

\* RegisterSerializer.is_valid: field errors of a registration body
RegisterErrors(data) ==
    {"password" : x \in IF data.password # data.password2 THEN {1} ELSE {}}
    \cup {"username" : pk \in {p \in DOMAIN users : users[p].username = data.username}}
    \cup {"email" : pk \in {p \in DOMAIN users : users[p].email = data.email}}

Register_saves_unvalidated(data) ==
    /\ Len(users) < MaxUsers
    /\ users' = Append(users,
           [username |-> data.username, email |-> data.email,
            password |-> make_password(data.password, 1),
            first_name |-> "", last_name |-> ""])
    /\ IF RegisterErrors(data) = {}
       THEN resp' = Response("register", NoCred, 0, 0, data, HTTP_201_CREATED,
                             [message |-> "User registered successfully"])
       ELSE resp' = Response("register", NoCred, 0, 0, data, HTTP_400_BAD_REQUEST,
                             [errors |-> RegisterErrors(data)])
    /\ UNCHANGED <<now, tasks, nextId, session, outbox, stale, used, inflight>>
Register(data) ==
    /\ IF RegisterErrors(data) = {}
       THEN /\ Len(users) < MaxUsers
            /\ users' = Append(users,
                   [username |-> data.username, email |-> data.email,
                    password |-> make_password(data.password, 1),
                    first_name |-> "", last_name |-> ""])
            /\ resp' = Response("register", NoCred, 0, 0, data, HTTP_201_CREATED,
                                [message |-> "User registered successfully"])
       ELSE /\ users' = users
            /\ resp' = Response("register", NoCred, 0, 0, data, HTTP_400_BAD_REQUEST,
                                [errors |-> RegisterErrors(data)])
    /\ UNCHANGED <<now, tasks, nextId, session, outbox, stale, used, inflight>>

(* Login: CustomTokenObtainPairView *)
ObtainToken(c, username, password) ==
    LET match == {p \in DOMAIN users :
                     users[p].username = username /\ check_password(users[p], password)}
    IN /\ IF match # {}
          THEN LET u == CHOOSE p \in match : TRUE
               IN /\ session' = [session EXCEPT ![c] =
                                    [access |-> AccessFor(u), refresh |-> RefreshFor(u)]]
                  /\ resp' = Response("token", NoCred, 0, 0,
                                      [username |-> username, password |-> password],
                                      HTTP_200_OK,
                                      [access |-> AccessFor(u), refresh |-> RefreshFor(u),
                                       user |-> u])
          ELSE /\ session' = session
               /\ resp' = Response("token", NoCred, 0, 0,
                                   [username |-> username, password |-> password],
                                   HTTP_401_UNAUTHORIZED,
                                   [detail |-> "No active account found with the given credentials"])
       /\ UNCHANGED <<now, users, tasks, nextId, outbox, stale, used, inflight>>

----------------------------------------------------------------------------
(* Tasks: TaskSerializer and TaskViewSet (a ModelViewSet) *)

Priorities == {"low", "medium", "high"}
Statuses == {"pending", "in_progress", "completed"}
WritableFields == {"title", "description", "due_date", "priority", "status"}
TaskDefaults ==
    [description |-> "", due_date |-> "null", priority |-> "medium", status |-> "pending"]

Has(data, f) == f \in DOMAIN data

\* TaskSerializer.is_valid: the fields of the body that are in error
TaskErrors(data, partial) ==
    {f \in {"title"} : IF Has(data, f) THEN data[f] = "" ELSE ~partial}
    \cup {f \in {"priority"} : Has(data, f) /\ data[f] \notin Priorities}
    \cup {f \in {"status"} : Has(data, f) /\ data[f] \notin Statuses}
    \cup {f \in {"due_date"} : Has(data, f) /\ data[f] = "not-a-date"}

\* TaskSerializer.validated_data: user, id and created_at are read-only
\* fields, so a value the body gives for them is dropped
validated_data_writable_user(data) ==
    [f \in DOMAIN data \cap (WritableFields \cup {"user"}) |-> data[f]]
validated_data(data) == [f \in DOMAIN data \cap WritableFields |-> data[f]]

\* TaskSerializer.to_representation
Representation(store, id) == [id |-> id] @@ store[id]

\* TaskViewSet.get_queryset: Task.objects.filter(user=request.user)
get_queryset_all(store, u) == DOMAIN store
get_queryset(store, u) == {id \in DOMAIN store : store[id].user = u}

\* .order_by('-created_at'): the ids of S, newest first
RECURSIVE order_by_created_at_asc(_, _)
order_by_created_at_asc(store, S) ==
    IF S = {} THEN <<>>
    ELSE LET first == CHOOSE i \in S :
                          \A j \in S : store[i].created_at <= store[j].created_at
         IN <<first>> \o order_by_created_at_asc(store, S \ {first})
RECURSIVE order_by_created_at_desc(_, _)
order_by_created_at_desc(store, S) ==
    IF S = {} THEN <<>>
    ELSE LET first == CHOOSE i \in S :
                          \A j \in S : store[i].created_at >= store[j].created_at
         IN <<first>> \o order_by_created_at_desc(store, S \ {first})

\* GenericAPIView.get_object: get_object_or_404 on the view's queryset
get_object_any_owner(store, u, id) == IF id \in DOMAIN store THEN id ELSE 0
get_object(store, u, id) == IF id \in get_queryset(store, u) THEN id ELSE 0

NotFound == [status |-> HTTP_404_NOT_FOUND, body |-> [detail |-> "Not found."]]
Out(status, body, store) == [status |-> status, body |-> body, store |-> store]

\* TaskViewSet.perform_create: serializer.save(user=self.request.user); the
\* keyword argument overrides whatever validated_data holds
perform_create_owner_from_body(store, nid, u, data) ==
    store @@ (nid :> ([created_at |-> nid,
                       user |-> IF Has(data, "user") THEN data.user ELSE u]
                      @@ validated_data(data) @@ TaskDefaults))
perform_create_drops_fields(store, nid, u, data) ==
    store @@ (nid :> ([user |-> u, created_at |-> nid, title |-> data.title]
                      @@ TaskDefaults))
perform_create(store, nid, u, data) ==
    store @@ (nid :> ([user |-> u, created_at |-> nid]
                      @@ validated_data(data) @@ TaskDefaults))

\* UpdateModelMixin.perform_update: serializer.save() sets the validated
\* fields on the instance and saves it
perform_update_resets_missing(store, id, data) ==
    [store EXCEPT ![id] = validated_data(data) @@ TaskDefaults @@ @]
perform_update(store, id, data) ==
    [store EXCEPT ![id] = validated_data(data) @@ @]

\* DestroyModelMixin.perform_destroy: instance.delete()
perform_destroy_keeps_row(store, id) == store
perform_destroy(store, id) == [i \in DOMAIN store \ {id} |-> store[i]]

\* The handlers of the view set on a store, for the authenticated user u:
\* status, body and the store afterwards.  nid is the id the table gives
\* the next row.
TaskList(store, u) ==
    Out(HTTP_200_OK,
        [results |-> [k \in DOMAIN order_by_created_at_desc(store, get_queryset(store, u))
                        |-> Representation(store,
                              order_by_created_at_desc(store, get_queryset(store, u))[k])]],
        store)

TaskCreate(store, nid, u, data) ==
    IF TaskErrors(data, FALSE) # {}
    THEN Out(HTTP_400_BAD_REQUEST, [errors |-> TaskErrors(data, FALSE)], store)
    ELSE Out(HTTP_201_CREATED,
             Representation(perform_create(store, nid, u, data), nid),
             perform_create(store, nid, u, data))

TaskRetrieve_forbidden(store, u, id) ==
    IF get_object(store, u, id) = 0
    THEN IF id \in DOMAIN store
         THEN Out(403, [detail |-> "You do not have permission to perform this action."],
                  store)
         ELSE Out(NotFound.status, NotFound.body, store)
    ELSE Out(HTTP_200_OK, Representation(store, id), store)
TaskRetrieve(store, u, id) ==
    IF get_object(store, u, id) = 0 THEN Out(NotFound.status, NotFound.body, store)
    ELSE Out(HTTP_200_OK, Representation(store, id), store)

TaskUpdate(store, u, id, data, partial) ==
    IF get_object(store, u, id) = 0 THEN Out(NotFound.status, NotFound.body, store)
    ELSE IF TaskErrors(data, partial) # {}
    THEN Out(HTTP_400_BAD_REQUEST, [errors |-> TaskErrors(data, partial)], store)
    ELSE Out(HTTP_200_OK, Representation(perform_update(store, id, data), id),
             perform_update(store, id, data))

TaskDestroy(store, u, id) ==
    IF get_object(store, u, id) = 0 THEN Out(NotFound.status, NotFound.body, store)
    ELSE Out(HTTP_204_NO_CONTENT, NoData, perform_destroy(store, id))

TaskOps == {"list", "create", "retrieve", "update", "partial_update", "destroy"}
DetailOps == {"retrieve", "update", "partial_update", "destroy"}

\* ModelViewSet dispatch: the handler of op
Handle(store, nid, u, op, id, data) ==
    CASE op = "list" -> TaskList(store, u)
      [] op = "create" -> TaskCreate(store, nid, u, data)
      [] op = "retrieve" -> TaskRetrieve(store, u, id)
      [] op = "update" -> TaskUpdate(store, u, id, data, FALSE)
      [] op = "partial_update" -> TaskUpdate(store, u, id, data, TRUE)
      [] op = "destroy" -> TaskDestroy(store, u, id)

\* One request to /api/tasks/ or /api/tasks/<id>/ carrying credential c
TaskRequest(c, op, id, data) ==
    /\ op = "create" => nextId <= MaxTasks
    /\ IF ~Admitted(c)
       THEN /\ resp' = Response(op, c, 0, id, data, HTTP_401_UNAUTHORIZED, Unauthorized(c))
            /\ UNCHANGED <<tasks, nextId>>
       ELSE LET u == JWTAuthentication(c)
                out == Handle(tasks, nextId, u, op, id, data)
            IN /\ resp' = Response(op, c, u, id, data, out.status, out.body)
               /\ tasks' = out.store
               /\ nextId' = IF nextId \in DOMAIN out.store THEN nextId + 1 ELSE nextId
    /\ UNCHANGED <<now, users, session, outbox, stale, used, inflight>>

----------------------------------------------------------------------------
(* Profile and change-password: UserProfileView, ChangePasswordView *)

\* CustomUserSerializer.to_representation
UserRepresentation(u) ==
    [id |-> u, username |-> users[u].username, email |-> users[u].email,
     first_name |-> users[u].first_name, last_name |-> users[u].last_name]

ProfileGet(c) ==
    /\ IF ~Admitted(c)
       THEN resp' = Response("profile_get", c, 0, 0, NoData,
                             HTTP_401_UNAUTHORIZED, Unauthorized(c))
       ELSE resp' = Response("profile_get", c, JWTAuthentication(c), 0, NoData,
                             HTTP_200_OK, UserRepresentation(JWTAuthentication(c)))
    /\ UNCHANGED <<now, users, tasks, nextId, session, outbox, stale, used, inflight>>

\* CustomUserSerializer: the profile fields a PATCH may set
ProfileFields == {"first_name", "last_name"}

\* UserProfileView (RetrieveUpdateAPIView) PATCH on request.user
ProfileUpdate(c, data) ==
    /\ IF ~Admitted(c)
       THEN /\ resp' = Response("profile_update", c, 0, 0, data,
                                HTTP_401_UNAUTHORIZED, Unauthorized(c))
            /\ users' = users
       ELSE LET u == JWTAuthentication(c)
                row == [f \in DOMAIN data \cap ProfileFields |-> data[f]] @@ users[u]
            IN /\ users' = [users EXCEPT ![u] = row]
               /\ resp' = Response("profile_update", c, u, 0, data, HTTP_200_OK,
                                   [id |-> u, username |-> row.username,
                                    email |-> row.email, first_name |-> row.first_name,
                                    last_name |-> row.last_name])
    /\ UNCHANGED <<now, tasks, nextId, session, outbox, stale, used, inflight>>

\* The history of reset links: those mailed for user u are stale once u's
\* password has been set again
LinksOf(u) == {m \in outbox : m.pk = u}

\* ChangePasswordSerializer.is_valid: both fields are required
ChangePasswordErrors(data) ==
    {f \in {"old_password", "new_password"} : ~Has(data, f) \/ data[f] = ""}

ChangePassword(c, data) ==
    /\ IF ~Admitted(c)
       THEN /\ resp' = Response("change_password", c, 0, 0, data,
                                HTTP_401_UNAUTHORIZED, Unauthorized(c))
            /\ UNCHANGED <<users, stale>>
       ELSE LET u == JWTAuthentication(c)
            IN IF ChangePasswordErrors(data) # {}
               THEN /\ resp' = Response("change_password", c, u, 0, data,
                                        HTTP_400_BAD_REQUEST,
                                        [errors |-> ChangePasswordErrors(data)])
                    /\ UNCHANGED <<users, stale>>
               ELSE IF ~check_password(users[u], data.old_password)
               THEN /\ resp' = Response("change_password", c, u, 0, data,
                                        HTTP_400_BAD_REQUEST,
                                        [old_password |-> "Wrong password."])
                    /\ UNCHANGED <<users, stale>>
               ELSE /\ users[u].password.salt <= MaxPwChanges
                    /\ users' = [users EXCEPT ![u] = set_password(@, data.new_password)]
                    /\ stale' = stale \cup LinksOf(u)
                    /\ resp' = Response("change_password", c, u, 0, data, HTTP_200_OK,
                                        [message |-> "Password updated successfully"])
    /\ UNCHANGED <<now, tasks, nextId, session, outbox, used, inflight>>

----------------------------------------------------------------------------
(* Password reset: PasswordResetRequestView, PasswordResetConfirmView *)

\* force_bytes(user.pk): the UTF-8 bytes of the decimal digits of pk
force_bytes(pk) == [bytes |-> "utf8", text |-> "digits", n |-> pk]
\* urlsafe_base64_encode
urlsafe_base64_encode(b) == [enc |-> "b64"] @@ b
\* urlsafe_base64_decode: ValueError on what is no base64
urlsafe_base64_decode(s) ==
    IF s.enc = "b64" THEN [f \in DOMAIN s \ {"enc"} |-> s[f]] ELSE [error |-> "ValueError"]
\* force_str: DjangoUnicodeDecodeError (a ValueError) on bytes that are no UTF-8
force_str(b) ==
    IF Has(b, "error") THEN b
    ELSE IF b.bytes = "utf8" THEN [text |-> b.text, n |-> b.n]
    ELSE [error |-> "ValueError"]
\* CustomUser.objects.get(pk=uid): the pk found; 0 on DoesNotExist, and on
\* the ValueError of a uid that is no number
get_user_by_pk_ignores_uid(uid) == IF users = <<>> THEN 0 ELSE 1
get_user_by_pk(uid) ==
    IF Has(uid, "error") \/ uid.text # "digits" THEN 0
    ELSE IF uid.n \in DOMAIN users THEN uid.n ELSE 0

\* PasswordResetTokenGenerator._make_hash_value: pk, password hash,
\* timestamp and email (last_login is never updated here)
make_hash_value_without_password(pk, user, ts) ==
    [pk |-> pk, pw |-> "", salt |-> 0, ts |-> ts, email |-> user.email,
     key |-> "SECRET_KEY"]
make_hash_value(pk, user, ts) ==
    [pk |-> pk, pw |-> user.password.pw, salt |-> user.password.salt, ts |-> ts,
     email |-> user.email, key |-> "SECRET_KEY"]

\* default_token_generator.make_token: "<ts>-<hmac of the hash value>"
make_token(pk, user) ==
    [wf |-> TRUE, ts |-> now, mac |-> make_hash_value(pk, user, now)]

\* default_token_generator.check_token
check_token_no_timeout(pk, user, token) ==
    /\ token.wf
    /\ token.mac = make_hash_value(pk, user, token.ts)
check_token(pk, user, token) ==
    /\ token.wf
    /\ token.mac = make_hash_value(pk, user, token.ts)
    /\ ~(now - token.ts > PASSWORD_RESET_TIMEOUT)

GenericResetMessage ==
    [message |-> "Si existe una cuenta con este correo, recibirá las instrucciones."]

\* PasswordResetRequestView.post; sent tells whether send_mail succeeded
PasswordResetRequest(data, sent) ==
    LET found == {p \in DOMAIN users : Has(data, "email") /\ users[p].email = data.email}
    IN /\ IF ~Has(data, "email") \/ data.email = ""
          THEN /\ resp' = Response("password_reset", NoCred, 0, 0, data,
                                   HTTP_400_BAD_REQUEST,
                                   [error |-> "Se requiere un correo electrónico"])
               /\ outbox' = outbox
          ELSE IF found = {}
          THEN /\ resp' = Response("password_reset", NoCred, 0, 0, data,
                                   HTTP_200_OK, GenericResetMessage)
               /\ outbox' = outbox
          ELSE LET pk == CHOOSE p \in found : \A q \in found : p <= q
               IN IF sent
                  THEN /\ Cardinality(outbox) < MaxMails
                       /\ outbox' = outbox \cup
                              {[to |-> data.email, pk |-> pk,
                                uid |-> urlsafe_base64_encode(force_bytes(pk)),
                                token |-> make_token(pk, users[pk])]}
                       /\ resp' = Response("password_reset", NoCred, 0, 0, data,
                              HTTP_200_OK,
                              [message |-> "Se ha enviado un correo con las instrucciones"])
                  ELSE /\ outbox' = outbox
                       /\ resp' = Response("password_reset", NoCred, 0, 0, data,
                              HTTP_500_INTERNAL_SERVER_ERROR,
                              [error |-> "Error al enviar el correo. Por favor, intente más tarde."])
       /\ UNCHANGED <<now, users, tasks, nextId, session, stale, used, inflight>>

InvalidResetLink == [error |-> "Invalid reset link"]

\* PasswordResetConfirmView.post
PasswordResetConfirm_sets_before_check(uidb64, token, data) ==
    LET user == get_user_by_pk(force_str(urlsafe_base64_decode(uidb64)))
        req == [uidb64 |-> uidb64, token |-> token] @@ data
    IN /\ IF user # 0 /\ check_token(user, users[user], token)
          THEN /\ users[user].password.salt <= MaxPwChanges
               /\ users' = [users EXCEPT ![user] =
                     set_password(@, IF Has(data, "new_password")
                                     THEN data.new_password ELSE "")]
               /\ stale' = stale \cup LinksOf(user)
               /\ IF Has(data, "new_password") /\ data.new_password # ""
                  THEN /\ used' = used \cup {[uid |-> uidb64, token |-> token]}
                       /\ resp' = Response("password_reset_confirm", NoCred, 0, 0, req,
                                     HTTP_200_OK, [message |-> "Password has been reset"])
                  ELSE /\ used' = used
                       /\ resp' = Response("password_reset_confirm", NoCred, 0, 0, req,
                                     HTTP_400_BAD_REQUEST,
                                     [error |-> "New password is required"])
          ELSE /\ resp' = Response("password_reset_confirm", NoCred, 0, 0, req,
                                   HTTP_400_BAD_REQUEST, InvalidResetLink)
               /\ UNCHANGED <<users, stale, used>>
       /\ UNCHANGED <<now, tasks, nextId, session, outbox, inflight>>
PasswordResetConfirm(uidb64, token, data) ==
    LET user == get_user_by_pk(force_str(urlsafe_base64_decode(uidb64)))
        req == [uidb64 |-> uidb64, token |-> token] @@ data
    IN /\ IF user # 0 /\ check_token(user, users[user], token)
          THEN IF Has(data, "new_password") /\ data.new_password # ""
               THEN /\ users[user].password.salt <= MaxPwChanges
                    /\ users' = [users EXCEPT ![user] = set_password(@, data.new_password)]
                    /\ stale' = stale \cup LinksOf(user)
                    /\ used' = used \cup {[uid |-> uidb64, token |-> token]}
                    /\ resp' = Response("password_reset_confirm", NoCred, 0, 0, req,
                                        HTTP_200_OK, [message |-> "Password has been reset"])
               ELSE /\ resp' = Response("password_reset_confirm", NoCred, 0, 0, req,
                                        HTTP_400_BAD_REQUEST,
                                        [error |-> "New password is required"])
                    /\ UNCHANGED <<users, stale, used>>
          ELSE /\ resp' = Response("password_reset_confirm", NoCred, 0, 0, req,
                                   HTTP_400_BAD_REQUEST, InvalidResetLink)
               /\ UNCHANGED <<users, stale, used>>
       /\ UNCHANGED <<now, tasks, nextId, session, outbox, inflight>>

----------------------------------------------------------------------------
(* Inputs of the requests *)

\* Registration bodies: the taken usernames and the next free one (the
\* users are interchangeable, so they register in the order of Names)
RegisterBodies ==
    {[username |-> Names[i], email |-> Emails[i], password |-> "p1", password2 |-> p2] :
        i \in 1..(IF Len(users) < MaxUsers THEN Len(users) + 1 ELSE MaxUsers),
        p2 \in {"p1", "p2"}}

\* Authorization headers: none, a malformed one, a token signed with another
\* key, and the access tokens the clients hold
ForgedCreds == {Jwt("access", u, MaxTime + 1, "bad") : u \in UserIds}
HeldCreds == {session[c].access : c \in Clients} \ {NoCred}
Creds == {NoCred, MalformedCred} \cup ForgedCreds \cup HeldCreds

NoSuchId == 999
TaskIdInputs == (1..MaxTasks) \cup {NoSuchId}

FullBodies ==
    {[title |-> "A", description |-> "d", due_date |-> "2024-12-31",
      priority |-> "high", status |-> "pending"]}
    \cup {[title |-> "B", priority |-> "low", status |-> "pending", user |-> u] :
             u \in UserIds}
    \cup {[title |-> "", priority |-> "invalid_priority"]}
PartialBodies ==
    {[status |-> "in_progress"], [title |-> ""]}
    \cup {[title |-> "B", user |-> u] : u \in UserIds}

(* The task API used by logged-in clients *)
NextTasks ==
    \/ \E data \in RegisterBodies : Register(data)
    \/ \E c \in Clients, n \in Usernames : ObtainToken(c, n, "p1")
    \/ \E c \in HeldCreds : TaskRequest(c, "list", 0, NoData)
    \/ \E c \in HeldCreds, data \in FullBodies : TaskRequest(c, "create", 0, data)
    \/ \E c \in HeldCreds, id \in TaskIdInputs : TaskRequest(c, "retrieve", id, NoData)
    \/ \E c \in HeldCreds, id \in TaskIdInputs, data \in FullBodies :
          TaskRequest(c, "update", id, data)
    \/ \E c \in HeldCreds, id \in TaskIdInputs, data \in PartialBodies :
          TaskRequest(c, "partial_update", id, data)
    \/ \E c \in HeldCreds, id \in TaskIdInputs : TaskRequest(c, "destroy", id, NoData)

SpecTasks == Init /\ [][NextTasks]_vars

----------------------------------------------------------------------------
(* Properties of the task API *)

OwnTasks(store, u) == {id \in DOMAIN store : store[id].user = u}
Foreign(store, u, id) == id \in DOMAIN store /\ store[id].user # u

\* C1: a user's retrieve, update (PUT/PATCH) and delete of a task owned by
\* another user is answered 404, and a user's list holds none of the tasks
\* of another user.
C1_Isolation ==
    [][/\ \A id \in DOMAIN tasks :
              (/\ resp'.op \in DetailOps
               /\ resp'.user \in DOMAIN users
               /\ resp'.id = id
               /\ Foreign(tasks, resp'.user, id))
              => resp'.status = HTTP_404_NOT_FOUND
       /\ (resp'.op = "list" /\ resp'.user \in DOMAIN users)
              => /\ resp'.status = HTTP_200_OK
                 /\ \A k \in DOMAIN resp'.body.results :
                        ~Foreign(tasks, resp'.user, resp'.body.results[k].id)
      ]_vars

C1_Witness ==
    /\ resp.op \in {"update", "partial_update"}
    /\ resp.user \in DOMAIN users
    /\ Foreign(tasks, resp.user, resp.id)
    /\ resp.status = HTTP_404_NOT_FOUND

\* C2: an update or delete by an authenticated user of an id that is not one
\* of that user's tasks (another user's, or no task's) leaves the task table
\* as it was.
C2_FailedMutationFrame ==
    [][(/\ resp'.op \in {"update", "partial_update", "destroy"}
        /\ resp'.user \in DOMAIN users
        /\ resp'.id \notin OwnTasks(tasks, resp'.user))
       => (tasks' = tasks /\ nextId' = nextId)
      ]_vars

C2_Witness ==
    /\ resp.op = "destroy"
    /\ resp.user \in DOMAIN users
    /\ Foreign(tasks, resp.user, resp.id)
    /\ resp.status = HTTP_404_NOT_FOUND

\* The table with the rows of every user but u removed
Strip(store, u) == [id \in OwnTasks(store, u) |-> store[id]]

BodiesOf(op) ==
    CASE op = "update" -> FullBodies
      [] op = "partial_update" -> PartialBodies
      [] OTHER -> {NoData}

SameAnswer(r1, r2) == r1.status = r2.status /\ r1.body = r2.body

\* C3: to a user b, retrieve, update and delete answer an id owned by another
\* user exactly as they answer an id of no task, and answer every id the
\* same whether or not the other users' tasks are in the table.
C3_NotFoundMasking ==
    /\ \A b \in DOMAIN users, op \in DetailOps :
         \A id \in TaskIdInputs, data \in BodiesOf(op) :
           /\ SameAnswer(Handle(tasks, nextId, b, op, id, data),
                         Handle(Strip(tasks, b), nextId, b, op, id, data))
           /\ Foreign(tasks, b, id) =>
                 SameAnswer(Handle(tasks, nextId, b, op, id, data),
                            Handle(tasks, nextId, b, op, NoSuchId, data))
    /\ (resp.op \in DetailOps /\ resp.user \in DOMAIN users
            /\ resp.id \notin OwnTasks(tasks, resp.user) /\ resp.op # "destroy")
         => SameAnswer(resp, NotFound)

C3_Witness ==
    /\ resp.op = "retrieve"
    /\ resp.user \in DOMAIN users
    /\ Foreign(tasks, resp.user, resp.id)
    /\ SameAnswer(resp, NotFound)
    /\ NoSuchId \notin DOMAIN tasks

\* C4: a created task is stored with the authenticated caller as its owner
\* and reported so, whatever user the request body names.
C4_CreateOwnerForced ==
    (resp.op = "create" /\ resp.status = HTTP_201_CREATED)
    => /\ resp.user \in DOMAIN users
       /\ resp.body.user = resp.user
       /\ resp.body.id \in DOMAIN tasks
       /\ tasks[resp.body.id].user = resp.user

C4_Witness ==
    /\ resp.op = "create"
    /\ resp.status = HTTP_201_CREATED
    /\ Has(resp.data, "user")
    /\ resp.data.user # resp.user
    /\ resp.data.user \in DOMAIN users

\* C5: no request changes the owner of a task that exists before and after it.
C5_OwnerImmutable ==
    [][\A id \in DOMAIN tasks \cap DOMAIN tasks' : tasks'[id].user = tasks[id].user]_vars

C5_Witness ==
    /\ resp.op \in {"update", "partial_update"}
    /\ resp.status = HTTP_200_OK
    /\ Has(resp.data, "user")
    /\ resp.data.user # resp.user
    /\ resp.data.user \in DOMAIN users
    /\ tasks[resp.id].user = resp.user

----------------------------------------------------------------------------
(* The guarded endpoints under every kind of Authorization header, with    *)
(* time passing                                                            *)

\* A refresh token sent where an access token belongs
HeldRefresh == {session[c].refresh : c \in Clients} \ {NoCred}
AnyCreds == Creds \cup HeldRefresh

ChangePasswordBodies ==
    {[old_password |-> "p1", new_password |-> "p2"], [old_password |-> "p1"]}
ProfileBodies == {[first_name |-> "Updated"]}
CreateBody == [title |-> "A", priority |-> "high", status |-> "pending"]

NextAuth ==
    \/ \E data \in RegisterBodies : Register(data)
    \/ \E c \in Clients, n \in Usernames, pw \in Passwords : ObtainToken(c, n, pw)
    \/ Tick
    \/ \E c \in AnyCreds : TaskRequest(c, "create", 0, CreateBody)
    \/ \E c \in AnyCreds : TaskRequest(c, "list", 0, NoData)
    \/ \E c \in AnyCreds : ProfileGet(c)
    \/ \E c \in AnyCreds, data \in ProfileBodies : ProfileUpdate(c, data)
    \/ \E c \in AnyCreds, data \in ChangePasswordBodies : ChangePassword(c, data)

SpecAuth == Init /\ [][NextAuth]_vars

GuardedOps ==
    TaskOps \cup {"profile_get", "profile_update", "change_password"}

\* What the header of a request is: absent, malformed, not signed by the
\* server, no access token, or past its expiry
Unverifiable(c) ==
    \/ c.kind # "jwt"
    \/ c.sig # "ok"
    \/ c.type # "access"
    \/ c.exp <= now

\* C6: a request to a task, profile or change-password endpoint without a
\* token, with a malformed token or with a token that fails verification is
\* answered 401, and the tasks and the users are as before.
C6_UnauthenticatedRejected ==
    [][(resp'.op \in GuardedOps /\ Unverifiable(resp'.cred))
       => /\ resp'.status = HTTP_401_UNAUTHORIZED
          /\ resp'.user = 0
          /\ tasks' = tasks /\ nextId' = nextId /\ users' = users
      ]_vars

C6_Witness ==
    /\ resp.op = "change_password"
    /\ resp.cred.kind = "jwt" /\ resp.cred.sig = "bad"
    /\ resp.cred.user \in DOMAIN users
    /\ Has(resp.data, "new_password")
    /\ check_password(users[resp.cred.user], resp.data.old_password)
    /\ resp.status = HTTP_401_UNAUTHORIZED

\* An access token the server issued to an existing user
IssuedAccess(c) ==
    c.kind = "jwt" /\ c.sig = "ok" /\ c.type = "access" /\ c.user \in DOMAIN users

\* C10: a request carrying an access token issued with expiry E is
\* authenticated as the token's user when made before E and answered 401
\* when made at E or later; the clock never runs backwards, so a token once
\* refused for expiry stays refused.
C10_AccessTokenExpiry ==
    [][/\ (resp'.op \in GuardedOps /\ IssuedAccess(resp'.cred))
          => /\ now < resp'.cred.exp
                 => (resp'.status # HTTP_401_UNAUTHORIZED
                     /\ resp'.user = resp'.cred.user)
             /\ now >= resp'.cred.exp => resp'.status = HTTP_401_UNAUTHORIZED
       /\ now' >= now
      ]_vars

C10_Witness ==
    /\ resp.op \in GuardedOps
    /\ IssuedAccess(resp.cred)
    /\ resp.cred.exp = now
    /\ resp.status = HTTP_401_UNAUTHORIZED

----------------------------------------------------------------------------
(* The password-reset flow, with password changes and time passing *)

ResetRequestBodies ==
    {[email |-> Emails[i]] : i \in UserIds} \cup {[email |-> "nobody@x.com"], [email |-> ""]}

\* What a caller can put in the uid part of the confirm URL
UidOf(pk) == urlsafe_base64_encode(force_bytes(pk))
BadUids ==
    {[enc |-> "invalid", bytes |-> "utf8", text |-> "digits", n |-> 1],
     [enc |-> "b64", bytes |-> "binary", text |-> "digits", n |-> 1],
     [enc |-> "b64", bytes |-> "utf8", text |-> "alpha", n |-> 1],
     UidOf(MaxUsers + 1)}

\* What a caller without the server's secret can make of a mailed token
Tampered(t) ==
    {[t EXCEPT !.ts = t.ts + 1],
     [t EXCEPT !.mac.key = "guess"],
     [t EXCEPT !.wf = FALSE]}

ConfirmBodies == {[new_password |-> p] : p \in Passwords} \cup {[new_password |-> ""]}

NextReset ==
    \/ \E data \in RegisterBodies : Register(data)
    \/ \E c \in Clients, n \in Usernames, pw \in Passwords : ObtainToken(c, n, pw)
    \/ Tick
    \/ \E c \in HeldCreds, data \in ChangePasswordBodies : ChangePassword(c, data)
    \/ \E data \in ResetRequestBodies, sent \in BOOLEAN : PasswordResetRequest(data, sent)
    \/ \E m \in outbox, data \in ConfirmBodies : PasswordResetConfirm(m.uid, m.token, data)
    \/ \E m \in outbox : \E pk \in UserIds \ {m.pk} :
          PasswordResetConfirm(UidOf(pk), m.token, [new_password |-> "p2"])
    \/ \E m \in outbox : \E t \in Tampered(m.token) :
          PasswordResetConfirm(m.uid, t, [new_password |-> "p2"])
    \/ \E m \in outbox, uid \in BadUids :
          PasswordResetConfirm(uid, m.token, [new_password |-> "p2"])

SpecReset == Init /\ [][NextReset]_vars

----------------------------------------------------------------------------
(* Properties of the password-reset flow *)

IsConfirm(r) == r.op = "password_reset_confirm"
\* The mailed links a confirm request presents
Presented(r, links) ==
    {m \in links : m.uid = r.data.uidb64 /\ m.token = r.data.token}
Expired(t) == now - t.ts > PASSWORD_RESET_TIMEOUT
Refused(r) == r.status = HTTP_400_BAD_REQUEST /\ r.body = InvalidResetLink

\* C7: a confirm presenting a link mailed for a user whose password has been
\* set again since (by change-password or by a confirm) is refused with the
\* invalid-reset-link answer and changes no password.
C7_StaleTokenRejected ==
    [][(IsConfirm(resp') /\ Presented(resp', stale) # {})
       => (Refused(resp') /\ users' = users)
      ]_vars

C7_Witness ==
    /\ IsConfirm(resp)
    /\ \E m \in Presented(resp, stale) :
          /\ [uid |-> m.uid, token |-> m.token] \notin used
          /\ ~Expired(m.token)
    /\ resp.data.new_password # ""
    /\ Refused(resp)

\* C8: a confirm presenting a (uid, token) that a confirm has succeeded with
\* before is refused with the invalid-reset-link answer and changes no
\* password, whatever password that success set.
C8_SingleUse ==
    [][(IsConfirm(resp')
        /\ [uid |-> resp'.data.uidb64, token |-> resp'.data.token] \in used)
       => (Refused(resp') /\ users' = users)
      ]_vars

C8_Witness ==
    /\ IsConfirm(resp)
    /\ [uid |-> resp.data.uidb64, token |-> resp.data.token] \in used
    /\ \E m \in Presented(resp, outbox) :
          /\ ~Expired(m.token)
          /\ users[m.pk].password.pw = m.token.mac.pw
    /\ resp.data.new_password # ""
    /\ Refused(resp)

\* A link as mailed, for a user whose password is still the one it was
\* mailed for, within the time window
GoodLink(uid, token) ==
    \E m \in outbox \ stale : m.uid = uid /\ m.token = token /\ ~Expired(token)

\* C9: a confirm whose uid does not decode, names no user, or whose token is
\* tampered, of another password state or expired gets one and the same
\* answer, 400 "Invalid reset link", and changes no password.
C9_UniformFailure ==
    [][(IsConfirm(resp') /\ ~GoodLink(resp'.data.uidb64, resp'.data.token))
       => (Refused(resp') /\ users' = users /\ used' = used /\ stale' = stale)
      ]_vars

C9_Witness ==
    /\ IsConfirm(resp)
    /\ \E m \in Presented(resp, outbox \ stale) : Expired(m.token)
    /\ resp.data.new_password # ""
    /\ Refused(resp)

----------------------------------------------------------------------------
(* Token refresh: TokenRefreshView at token/refresh/ *)

\* RefreshToken(...).access_token: a new access token for the user of the
\* refresh token r, its expiry counted from now
RefreshedAccess_original_exp(r) ==
    Jwt("access", r.user, r.exp - REFRESH_TOKEN_LIFETIME + ACCESS_TOKEN_LIFETIME, "ok")
RefreshedAccess(r) == Jwt("access", r.user, now + ACCESS_TOKEN_LIFETIME, "ok")

InvalidRefresh == [detail |-> "Token is invalid or expired", code |-> "token_not_valid"]

\* TokenRefreshView.post: client c sends r as the body's refresh token and
\* keeps the access token it is given
TokenRefresh(c, r) ==
    /\ IF TokenValid(r, "refresh")
       THEN /\ session' = [session EXCEPT ![c].access = RefreshedAccess(r)]
            /\ resp' = Response("token_refresh", NoCred, 0, 0, [refresh |-> r],
                                HTTP_200_OK, [access |-> RefreshedAccess(r)])
       ELSE /\ session' = session
            /\ resp' = Response("token_refresh", NoCred, 0, 0, [refresh |-> r],
                                HTTP_401_UNAUTHORIZED, InvalidRefresh)
    /\ UNCHANGED <<now, users, tasks, nextId, outbox, stale, used, inflight>>

\* Refresh tokens a caller can send: the held ones, a held access token and
\* a refresh token signed with another key
RefreshInputs ==
    HeldRefresh \cup HeldCreds \cup {Jwt("refresh", u, MaxTime + 1, "bad") : u \in UserIds}

NextRefresh ==
    \/ \E data \in RegisterBodies : Register(data)
    \/ \E c \in Clients, n \in Usernames : ObtainToken(c, n, "p1")
    \/ Tick
    \/ \E c \in Clients, r \in RefreshInputs : TokenRefresh(c, r)
    \/ \E c \in HeldCreds : ProfileGet(c)

SpecRefresh == Init /\ [][NextRefresh]_vars

\* A refresh token the server issued
IssuedRefresh(r) == r.kind = "jwt" /\ r.sig = "ok" /\ r.type = "refresh"

\* C11: an unexpired refresh token of user U is answered with a new access
\* token of U that expires one access lifetime from now, with no password
\* asked; a request carrying an access token is authenticated as its user
\* until that token's own expiry, whenever the login's access token expired;
\* any other refresh token is answered 401 with no token.
C11_Refresh ==
    [][/\ (resp'.op = "token_refresh"
             /\ IssuedRefresh(resp'.data.refresh) /\ resp'.data.refresh.exp > now)
          => /\ resp'.status = HTTP_200_OK
             /\ IssuedAccess(resp'.body.access)
             /\ resp'.body.access.user = resp'.data.refresh.user
             /\ resp'.body.access.exp = now + ACCESS_TOKEN_LIFETIME
             /\ ~Has(resp'.data, "password")
       /\ (resp'.op = "token_refresh"
             /\ ~(IssuedRefresh(resp'.data.refresh) /\ resp'.data.refresh.exp > now))
          => /\ resp'.status = HTTP_401_UNAUTHORIZED
             /\ ~Has(resp'.body, "access")
             /\ session' = session
       /\ (resp'.op \in GuardedOps /\ IssuedAccess(resp'.cred) /\ now < resp'.cred.exp)
          => (resp'.status = HTTP_200_OK /\ resp'.user = resp'.cred.user)
      ]_vars

\* A request is authenticated with a refreshed access token after the access
\* token of the same login has expired
C11_Witness ==
    /\ resp.op = "profile_get"
    /\ resp.status = HTTP_200_OK
    /\ \E c \in Clients :
          /\ resp.cred = session[c].access
          /\ session[c].refresh.user = resp.user
          /\ session[c].refresh.exp - REFRESH_TOKEN_LIFETIME + ACCESS_TOKEN_LIFETIME <= now

----------------------------------------------------------------------------
(* Task life cycle: partial update, delete, round trip, list order *)

\* The fields of a stored task
TaskFields == WritableFields \cup {"user", "created_at"}

\* C12: a successful PATCH by the owner gives each supplied writable field
\* its new value and leaves every other field of the task (owner and id
\* included) and every other task as it was.
C12_PartialUpdate ==
    [][(resp'.op = "partial_update" /\ resp'.status = HTTP_200_OK)
       => /\ resp'.id \in OwnTasks(tasks, resp'.user)
          /\ DOMAIN tasks' = DOMAIN tasks
          /\ \A f \in WritableFields \cap DOMAIN resp'.data :
                tasks'[resp'.id][f] = resp'.data[f]
          /\ \A f \in TaskFields \ (WritableFields \cap DOMAIN resp'.data) :
                tasks'[resp'.id][f] = tasks[resp'.id][f]
          /\ \A id \in DOMAIN tasks \ {resp'.id} : tasks'[id] = tasks[id]
          /\ resp'.body = Representation(tasks', resp'.id)
          /\ resp'.body.id = resp'.id
      ]_vars

\* A PATCH of the status alone on a task whose other fields are not the
\* defaults
C12_Witness ==
    /\ resp.op = "partial_update"
    /\ resp.status = HTTP_200_OK
    /\ DOMAIN resp.data = {"status"}
    /\ tasks[resp.id].status = "in_progress"
    /\ tasks[resp.id].description = "d"
    /\ tasks[resp.id].priority = "high"

\* The ids the table has given out whose row is gone
Deleted(store, nid) == (1..(nid - 1)) \ DOMAIN store

\* The ids a list response shows
ListedIds(body) == {body.results[k].id : k \in DOMAIN body.results}

\* C13: the owner's delete of an existing task is answered 204 and removes
\* it from get and list; a deleted task never comes back, and every later
\* delete, get or update of its id is answered NotFound.
C13_Delete ==
    [][/\ (resp'.op = "destroy" /\ resp'.status = HTTP_204_NO_CONTENT)
          => /\ resp'.id \in OwnTasks(tasks, resp'.user)
             /\ resp'.id \in Deleted(tasks', nextId')
             /\ TaskRetrieve(tasks', resp'.user, resp'.id).status = HTTP_404_NOT_FOUND
             /\ resp'.id \notin ListedIds(TaskList(tasks', resp'.user).body)
             /\ \A id \in DOMAIN tasks \ {resp'.id} :
                   id \in DOMAIN tasks' /\ tasks'[id] = tasks[id]
       /\ (resp'.op = "destroy" /\ resp'.user \in DOMAIN users
             /\ resp'.id \in OwnTasks(tasks, resp'.user))
          => resp'.status = HTTP_204_NO_CONTENT
       /\ \A id \in Deleted(tasks, nextId) :
             /\ id \in Deleted(tasks', nextId')
             /\ (resp'.op \in DetailOps /\ resp'.id = id /\ resp'.user \in DOMAIN users)
                => (resp'.status = HTTP_404_NOT_FOUND /\ tasks' = tasks)
             /\ (resp'.op = "list" /\ resp'.status = HTTP_200_OK)
                => id \notin ListedIds(resp'.body)
      ]_vars

\* A second delete of a task that was deleted before
C13_Witness ==
    /\ resp.op = "destroy"
    /\ resp.user \in DOMAIN users
    /\ resp.id \in Deleted(tasks, nextId)
    /\ resp.status = HTTP_404_NOT_FOUND

\* The answer shows the fields the body submitted, owner u and id i
Echoes(body, data, u, i) ==
    /\ \A f \in WritableFields \cap DOMAIN data : body[f] = data[f]
    /\ body.user = u
    /\ body.id = i

\* C14: a create by U answered with id i stores the submitted fields under
\* owner U, so that a get of i by U returns them with owner U and id i; a
\* step that is no update or delete of i leaves the task as it is, and a
\* get of i by U returns the stored task.
C14_RoundTrip ==
    [][/\ (resp'.op = "create" /\ resp'.status = HTTP_201_CREATED)
          => /\ resp'.body.id \notin DOMAIN tasks
             /\ TaskRetrieve(tasks', resp'.user, resp'.body.id).status = HTTP_200_OK
             /\ Echoes(TaskRetrieve(tasks', resp'.user, resp'.body.id).body,
                       resp'.data, resp'.user, resp'.body.id)
             /\ Echoes(resp'.body, resp'.data, resp'.user, resp'.body.id)
       /\ \A i \in DOMAIN tasks :
             ~(resp'.op \in {"update", "partial_update", "destroy"} /\ resp'.id = i)
             => (i \in DOMAIN tasks' /\ tasks'[i] = tasks[i])
       /\ (resp'.op = "retrieve" /\ resp'.user \in DOMAIN users
             /\ resp'.id \in OwnTasks(tasks, resp'.user))
          => /\ resp'.status = HTTP_200_OK
             /\ resp'.body = Representation(tasks, resp'.id)
             /\ resp'.body.user = resp'.user
             /\ resp'.body.id = resp'.id
      ]_vars

\* A get that returns every field of the test's task_data
C14_Witness ==
    /\ resp.op = "retrieve"
    /\ resp.status = HTTP_200_OK
    /\ resp.body.id = resp.id
    /\ resp.body.user = resp.user
    /\ resp.body.title = "A"
    /\ resp.body.description = "d"
    /\ resp.body.due_date = "2024-12-31"
    /\ resp.body.priority = "high"

\* C15: the list of user U holds exactly U's tasks, each once, and no task
\* comes before one created later.
C15_ListOrder ==
    [][(resp'.op = "list" /\ resp'.status = HTTP_200_OK)
       => /\ ListedIds(resp'.body) = OwnTasks(tasks, resp'.user)
          /\ Len(resp'.body.results) = Cardinality(OwnTasks(tasks, resp'.user))
          /\ \A k \in DOMAIN resp'.body.results :
                resp'.body.results[k] = Representation(tasks, resp'.body.results[k].id)
          /\ \A j, k \in DOMAIN resp'.body.results :
                j < k => resp'.body.results[j].created_at >= resp'.body.results[k].created_at
          /\ tasks' = tasks
      ]_vars

\* A list of two tasks, the later one first
C15_Witness ==
    /\ resp.op = "list"
    /\ resp.status = HTTP_200_OK
    /\ Len(resp.body.results) = 2
    /\ resp.body.results[1].created_at > resp.body.results[2].created_at

----------------------------------------------------------------------------
(* The reset request of backend/users: PasswordResetRequestView answers an *)
(* unknown address with 404                                                *)

\* The answer when no user has the address
UserNotFound_generic == [status |-> HTTP_200_OK, body |-> GenericResetMessage]
UserNotFound ==
    [status |-> HTTP_404_NOT_FOUND,
     body |-> [error |-> "No se encontró un usuario con este correo electrónico"]]

\* str(e) of the exceptions send_mail raises with fail_silently=False
MailErrors == {"[Errno 111] Connection refused"}

\* PasswordResetRequestView.post of backend/users; exc is "" when send_mail
\* returns and str(e) when it raises e.  The body of the 500 answer is the
\* text of error followed by the text of str_e.
PasswordResetRequestBackend(data, exc) ==
    LET found == {p \in DOMAIN users : Has(data, "email") /\ users[p].email = data.email}
    IN /\ IF ~Has(data, "email") \/ data.email = ""
          THEN /\ resp' = Response("password_reset_backend", NoCred, 0, 0, data,
                                   HTTP_400_BAD_REQUEST,
                                   [error |-> "Se requiere un correo electrónico"])
               /\ outbox' = outbox
          ELSE IF found = {}
          THEN /\ resp' = Response("password_reset_backend", NoCred, 0, 0, data,
                                   UserNotFound.status, UserNotFound.body)
               /\ outbox' = outbox
          ELSE LET pk == CHOOSE p \in found : \A q \in found : p <= q
               IN IF exc = ""
                  THEN /\ Cardinality(outbox) < MaxMails
                       /\ outbox' = outbox \cup
                              {[to |-> data.email, pk |-> pk,
                                uid |-> urlsafe_base64_encode(force_bytes(pk)),
                                token |-> make_token(pk, users[pk])]}
                       /\ resp' = Response("password_reset_backend", NoCred, 0, 0, data,
                              HTTP_200_OK,
                              [message |-> "Se ha enviado un correo con las instrucciones"])
                  ELSE /\ outbox' = outbox
                       /\ resp' = Response("password_reset_backend", NoCred, 0, 0, data,
                              HTTP_500_INTERNAL_SERVER_ERROR,
                              [error |-> "Error al enviar el correo: ", str_e |-> exc])
       /\ UNCHANGED <<now, users, tasks, nextId, session, stale, used, inflight>>

(* Both reset-request views, with send_mail succeeding or failing *)
NextRequest ==
    \/ \E data \in RegisterBodies : Register(data)
    \/ Tick
    \/ \E data \in ResetRequestBodies, sent \in BOOLEAN : PasswordResetRequest(data, sent)
    \/ \E data \in ResetRequestBodies, exc \in MailErrors \cup {""} :
          PasswordResetRequestBackend(data, exc)

SpecRequest == Init /\ [][NextRequest]_vars

\* The request names a non-empty address; Known: some user has it
NamesAddress(r) == Has(r.data, "email") /\ r.data.email # ""
Known(r) == \E p \in DOMAIN users : users[p].email = r.data.email

\* C16: in backend/users a reset request for an address no user has is
\* answered 404, and no mail is sent and no token issued.
C16_UnknownAddress404 ==
    [][(resp'.op = "password_reset_backend" /\ NamesAddress(resp') /\ ~Known(resp'))
       => /\ resp'.status = HTTP_404_NOT_FOUND
          /\ outbox' = outbox
          /\ users' = users
      ]_vars

C16_Witness ==
    /\ resp.op = "password_reset_backend"
    /\ NamesAddress(resp)
    /\ ~Known(resp)
    /\ resp.status = HTTP_404_NOT_FOUND
    /\ users # <<>>

\* C17: in users/views.py a reset request for a non-empty address is answered
\* 200 with the same generic message whether no user has the address or a
\* user has it and the mail went out; no mail is sent when no user has it.
C17_NonLeaking ==
    [][(resp'.op = "password_reset" /\ NamesAddress(resp')
          /\ resp'.status # HTTP_500_INTERNAL_SERVER_ERROR)
       => /\ resp'.status = HTTP_200_OK
          /\ resp'.body = GenericResetMessage
          /\ ~Known(resp') => outbox' = outbox
      ]_vars

\* The text of a raised exception is part of the body
LeaksException(body) == Has(body, "str_e")

\* C18: a reset request for a known address either sends the mail or, when
\* the transport fails, is answered 500 with a body that differs from the
\* unknown-address answers and holds no text of the exception.
C18_MailFailure ==
    [][(resp'.op \in {"password_reset", "password_reset_backend"}
          /\ NamesAddress(resp') /\ Known(resp'))
       => \/ /\ resp'.status = HTTP_200_OK
             /\ \E m \in outbox' : m.to = resp'.data.email
          \/ /\ resp'.status = HTTP_500_INTERNAL_SERVER_ERROR
             /\ outbox' = outbox
             /\ resp'.body \notin {UserNotFound.body, GenericResetMessage}
             /\ ~LeaksException(resp'.body)
      ]_vars

----------------------------------------------------------------------------
(* Accounts: registration, login and change-password *)

\* Registration bodies with every pairing of username and address
AccountBodies ==
    {[username |-> Names[i], email |-> Emails[j], password |-> "p1", password2 |-> p2] :
        i \in UserIds, j \in UserIds, p2 \in Passwords}

\* Change-password bodies: every old and new password, and a body without
\* the new password
PasswordBodies ==
    {[old_password |-> a, new_password |-> b] : a \in Passwords, b \in Passwords}
    \cup {[old_password |-> "p1"]}

NextAccounts ==
    \/ \E data \in AccountBodies : Register(data)
    \/ \E c \in Clients, n \in Usernames, pw \in Passwords : ObtainToken(c, n, pw)
    \/ \E c \in HeldCreds, data \in PasswordBodies : ChangePassword(c, data)

SpecAccounts == Init /\ [][NextAccounts]_vars

\* A change-password request of an authenticated user with both fields
IsChange(r) ==
    /\ r.op = "change_password"
    /\ r.user \in DOMAIN users
    /\ ChangePasswordErrors(r.data) = {}

\* Login accepts exactly the stored password of the named user
LoginChecksPassword(r) ==
    r.op = "token"
    => (r.status = HTTP_200_OK
        <=> \E p \in DOMAIN users :
               users[p].username = r.data.username
               /\ check_password(users[p], r.data.password))

\* C19 as the spec states it: after a change-password with a wrong old
\* password (400) the password is unchanged, the old password still logs in
\* and the supplied new password does not; with the correct old password
\* (200) only the new password verifies afterwards.
C19_AsStated ==
    [][/\ (IsChange(resp') /\ ~check_password(users[resp'.user], resp'.data.old_password))
          => /\ resp'.status = HTTP_400_BAD_REQUEST
             /\ users' = users
             /\ ~check_password(users'[resp'.user], resp'.data.new_password)
       /\ (IsChange(resp') /\ check_password(users[resp'.user], resp'.data.old_password))
          => /\ resp'.status = HTTP_200_OK
             /\ \A p \in Passwords :
                   check_password(users'[resp'.user], p) <=> p = resp'.data.new_password
       /\ LoginChecksPassword(resp')
      ]_vars

\* C19: a change-password with a wrong old password is answered 400 and
\* leaves the password unchanged: every password logs in afterwards exactly
\* if it did before, so the supplied new password logs in only if it is the
\* current password; with the correct old password the answer is 200 and
\* only the new password verifies afterwards.
C19_ChangePassword ==
    [][/\ (IsChange(resp') /\ ~check_password(users[resp'.user], resp'.data.old_password))
          => /\ resp'.status = HTTP_400_BAD_REQUEST
             /\ users' = users
             /\ \A p \in Passwords :
                   check_password(users'[resp'.user], p)
                   <=> check_password(users[resp'.user], p)
             /\ check_password(users'[resp'.user], resp'.data.new_password)
                => check_password(users[resp'.user], resp'.data.new_password)
       /\ (IsChange(resp') /\ check_password(users[resp'.user], resp'.data.old_password))
          => /\ resp'.status = HTTP_200_OK
             /\ \A p \in Passwords :
                   check_password(users'[resp'.user], p) <=> p = resp'.data.new_password
             /\ \A q \in DOMAIN users \ {resp'.user} : users'[q] = users[q]
       /\ LoginChecksPassword(resp')
      ]_vars

\* A wrong old password is refused while the supplied new password is the
\* current one
C19_Witness ==
    /\ IsChange(resp)
    /\ resp.status = HTTP_400_BAD_REQUEST
    /\ Has(resp.body, "old_password")
    /\ ~check_password(users[resp.user], resp.data.old_password)
    /\ check_password(users[resp.user], resp.data.new_password)

\* No two users have the same username
UniqueUsernames(us) ==
    \A p, q \in DOMAIN us : us[p].username = us[q].username => p = q

\* C20: a registration whose passwords differ or whose username is taken is
\* answered 400 with an error for that field and leaves the users as they
\* were; a valid registration is answered 201 and adds exactly one user, the
\* one registered; usernames stay unique.
C20_Registration ==
    [][/\ (resp'.op = "register" /\ resp'.data.password # resp'.data.password2)
          => /\ resp'.status = HTTP_400_BAD_REQUEST
             /\ "password" \in resp'.body.errors
             /\ users' = users
       /\ (resp'.op = "register"
             /\ \E p \in DOMAIN users : users[p].username = resp'.data.username)
          => /\ resp'.status = HTTP_400_BAD_REQUEST
             /\ "username" \in resp'.body.errors
             /\ users' = users
       /\ (resp'.op = "register" /\ resp'.status # HTTP_201_CREATED) => users' = users
       /\ (resp'.op = "register" /\ RegisterErrors(resp'.data) = {})
          => resp'.status = HTTP_201_CREATED
       /\ (resp'.op = "register" /\ resp'.status = HTTP_201_CREATED)
          => /\ Len(users') = Len(users) + 1
             /\ SubSeq(users', 1, Len(users)) = users
             /\ users'[Len(users')].username = resp'.data.username
             /\ check_password(users'[Len(users')], resp'.data.password)
       /\ UniqueUsernames(users')
      ]_vars

\* A registration refused for its username alone
C20_Witness ==
    /\ resp.op = "register"
    /\ resp.status = HTTP_400_BAD_REQUEST
    /\ resp.body.errors = {"username"}
    /\ \E p \in DOMAIN users : users[p].username = resp.data.username
    /\ UniqueUsernames(users)

----------------------------------------------------------------------------
(* Sessions and links after a password reset *)

\* The user the uid of a confirm request decodes to; 0 when there is none
ConfirmedUser(r) == get_user_by_pk(force_str(urlsafe_base64_decode(r.data.uidb64)))

\* C21: when a confirm for user U succeeds, no access token and no refresh
\* token that a client got for U before is accepted afterwards by the
\* authenticated endpoints or by the refresh endpoint.
C21_SessionsTerminated ==
    [][(IsConfirm(resp') /\ resp'.status = HTTP_200_OK)
       => \A c \in HeldCreds \cup HeldRefresh :
             c.user = ConfirmedUser(resp')
             => (~Admitted(c) /\ ~TokenValid(c, "refresh"))'
      ]_vars

\* C22: a confirm succeeds only with a link as a reset request mailed it
\* (the token together with the uid of the user it was made for), whose
\* user has the password the token was made with, within the time window;
\* it then sets the password of that user alone.  A token mailed for one
\* user with the uid of another changes nobody's password.
C22_TokenBoundToUser ==
    [][/\ (IsConfirm(resp') /\ resp'.status = HTTP_200_OK)
          => \E m \in Presented(resp', outbox \ stale) :
                /\ m.uid = UidOf(m.pk)
                /\ users[m.pk].password.pw = m.token.mac.pw
                /\ users[m.pk].password.salt = m.token.mac.salt
                /\ ~Expired(m.token)
                /\ \A q \in DOMAIN users \ {m.pk} : users'[q] = users[q]
       /\ (IsConfirm(resp')
             /\ \E m \in outbox : m.token = resp'.data.token /\ m.uid # resp'.data.uidb64)
          => (Refused(resp') /\ users' = users)
      ]_vars

\* The token mailed for one user is presented with the uid of another
\* registered user, in time and with a new password, and is refused
C22_Witness ==
    /\ IsConfirm(resp)
    /\ \E m \in outbox \ stale :
          /\ m.token = resp.data.token
          /\ ~Expired(m.token)
          /\ ConfirmedUser(resp) \in DOMAIN users \ {m.pk}
    /\ resp.data.new_password # ""
    /\ Refused(resp)

----------------------------------------------------------------------------
(* PasswordResetConfirmView.post as it runs next to other requests: the    *)
(* view reads the user row and checks the token, and only later writes the *)
(* row back; nothing locks the row in between                              *)

\* CustomUser.objects.get(pk=uid), check_token and request.data.get: worker
\* w answers a bad link or a missing password at once, and otherwise holds
\* the row it has read
ConfirmCheck(w, uidb64, token, data) ==
    LET user == get_user_by_pk(force_str(urlsafe_base64_decode(uidb64)))
        req == [uidb64 |-> uidb64, token |-> token] @@ data
    IN /\ inflight[w] = NoRequest
       /\ IF user # 0 /\ check_token(user, users[user], token)
          THEN IF Has(data, "new_password") /\ data.new_password # ""
               THEN /\ inflight' = [inflight EXCEPT ![w] =
                           [op |-> "password_reset_confirm", pk |-> user,
                            row |-> users[user], req |-> req]]
                    /\ resp' = Idle
               ELSE /\ resp' = Response("password_reset_confirm", NoCred, 0, 0, req,
                                        HTTP_400_BAD_REQUEST,
                                        [error |-> "New password is required"])
                    /\ inflight' = inflight
          ELSE /\ resp' = Response("password_reset_confirm", NoCred, 0, 0, req,
                                   HTTP_400_BAD_REQUEST, InvalidResetLink)
               /\ inflight' = inflight
       /\ UNCHANGED <<now, users, tasks, nextId, session, outbox, stale, used>>

\* user.set_password(new_password); user.save(): worker w writes the row it
\* holds, with the new hash, over whatever the table has, and answers 200
ConfirmSave(w) ==
    /\ inflight[w].op = "password_reset_confirm"
    /\ inflight[w].row.password.salt <= MaxPwChanges
    /\ users' = [users EXCEPT ![inflight[w].pk] =
                    set_password(inflight[w].row, inflight[w].req.new_password)]
    /\ stale' = stale \cup LinksOf(inflight[w].pk)
    /\ used' = used \cup {[uid |-> inflight[w].req.uidb64, token |-> inflight[w].req.token]}
    /\ resp' = Response("password_reset_confirm", NoCred, 0, 0, inflight[w].req,
                        HTTP_200_OK, [message |-> "Password has been reset"])
    /\ inflight' = [inflight EXCEPT ![w] = NoRequest]
    /\ UNCHANGED <<now, tasks, nextId, session, outbox>>

(* Confirm requests of several workers, interleaved *)
NextConfirmRace ==
    \/ \E data \in RegisterBodies : Register(data)
    \/ Tick
    \/ \E data \in ResetRequestBodies : PasswordResetRequest(data, TRUE)
    \/ \E w \in Workers, m \in outbox, data \in ConfirmBodies :
          ConfirmCheck(w, m.uid, m.token, data)
    \/ \E w \in Workers : ConfirmSave(w)

SpecConfirmRace == Init /\ [][NextConfirmRace]_vars

\* C23: a confirm succeeds only with a (uid, token) that no confirm has
\* succeeded with before, however the confirm requests interleave: of the
\* confirms carrying one (uid, token) at most one returns success.
C23_AtMostOneSuccess ==
    [][(IsConfirm(resp') /\ resp'.status = HTTP_200_OK)
       => [uid |-> resp'.data.uidb64, token |-> resp'.data.token] \notin used
      ]_vars

----------------------------------------------------------------------------
(* UpdateModelMixin.update as it runs next to other requests: the view     *)
(* reads the task with get_object and only later saves the instance        *)

\* Model.save() of an instance with a pk: UPDATE the row with that pk, and
\* INSERT the instance when the UPDATE matched no row
Model_save(store, id, instance) ==
    [i \in DOMAIN store \cup {id} |-> IF i = id THEN instance ELSE store[i]]

\* get_object and serializer.is_valid: worker w answers 401, 404 or 400 at
\* once, and otherwise holds the instance it has read
UpdateRead(w, c, op, id, data) ==
    /\ inflight[w] = NoRequest
    /\ IF ~Admitted(c)
       THEN /\ resp' = Response(op, c, 0, id, data, HTTP_401_UNAUTHORIZED, Unauthorized(c))
            /\ inflight' = inflight
       ELSE LET u == JWTAuthentication(c)
            IN IF get_object(tasks, u, id) = 0
               THEN /\ resp' = Response(op, c, u, id, data, NotFound.status, NotFound.body)
                    /\ inflight' = inflight
               ELSE IF TaskErrors(data, op = "partial_update") # {}
               THEN /\ resp' = Response(op, c, u, id, data, HTTP_400_BAD_REQUEST,
                                        [errors |-> TaskErrors(data, op = "partial_update")])
                    /\ inflight' = inflight
               ELSE /\ resp' = Idle
                    /\ inflight' = [inflight EXCEPT ![w] =
                           [op |-> op, cred |-> c, user |-> u, id |-> id,
                            data |-> data, row |-> tasks[id]]]
    /\ UNCHANGED <<now, users, tasks, nextId, session, outbox, stale, used>>

\* perform_update: serializer.save() sets the validated fields on the
\* instance worker w holds and saves it; the answer is 200 with the instance
UpdateSave(w) ==
    /\ inflight[w].op \in {"update", "partial_update"}
    /\ LET r == inflight[w]
           instance == validated_data(r.data) @@ r.row
       IN /\ tasks' = Model_save(tasks, r.id, instance)
          /\ resp' = Response(r.op, r.cred, r.user, r.id, r.data, HTTP_200_OK,
                              [id |-> r.id] @@ instance)
    /\ inflight' = [inflight EXCEPT ![w] = NoRequest]
    /\ UNCHANGED <<now, users, nextId, session, outbox, stale, used>>

(* Updates of several workers next to creates, gets, lists and deletes *)
NextTaskRace ==
    \/ \E data \in RegisterBodies : Register(data)
    \/ \E c \in Clients, n \in Usernames : ObtainToken(c, n, "p1")
    \/ \E c \in HeldCreds : TaskRequest(c, "create", 0, CreateBody)
    \/ \E c \in HeldCreds : TaskRequest(c, "list", 0, NoData)
    \/ \E c \in HeldCreds, id \in TaskIdInputs : TaskRequest(c, "retrieve", id, NoData)
    \/ \E c \in HeldCreds, id \in TaskIdInputs : TaskRequest(c, "destroy", id, NoData)
    \/ \E w \in Workers, c \in HeldCreds, id \in TaskIdInputs :
          UpdateRead(w, c, "partial_update", id, [status |-> "in_progress"])
    \/ \E w \in Workers : UpdateSave(w)

SpecTaskRace == Init /\ [][NextTaskRace]_vars

\* C24: a task whose delete has committed is in no get and no list of any
\* user after any later step, whatever update of it was in flight.
C24_DeleteFinal ==
    [][\A id \in Deleted(tasks, nextId) : \A u \in DOMAIN users :
          /\ TaskRetrieve(tasks', u, id).status = HTTP_404_NOT_FOUND
          /\ id \notin ListedIds(TaskList(tasks', u).body)
      ]_vars

----------------------------------------------------------------------------
(* Confirm requests with and without a new password *)

\* Bodies of a confirm request: a new password, an empty one, none
ConfirmBodiesOrNone == ConfirmBodies \cup {NoData}

NextConfirm ==
    \/ \E data \in RegisterBodies : Register(data)
    \/ Tick
    \/ \E data \in ResetRequestBodies : PasswordResetRequest(data, TRUE)
    \/ \E m \in outbox, data \in ConfirmBodiesOrNone :
          PasswordResetConfirm(m.uid, m.token, data)

SpecConfirm == Init /\ [][NextConfirm]_vars

\* The body of the request has no new password, or an empty one
NoNewPassword(r) == ~Has(r.data, "new_password") \/ r.data.new_password = ""

\* C25: a confirm with a good link and a missing or empty new_password is
\* answered 400 "New password is required", changes no password and leaves
\* the link good: the token still verifies afterwards, and a confirm with a
\* good link and a non-empty new_password is answered 200 and sets it.
C25_MissingPasswordKeepsToken ==
    [][\A m \in outbox :
          (IsConfirm(resp') /\ m.uid = resp'.data.uidb64 /\ m.token = resp'.data.token
             /\ GoodLink(m.uid, m.token))
          => IF NoNewPassword(resp')
             THEN /\ resp'.status = HTTP_400_BAD_REQUEST
                  /\ resp'.body = [error |-> "New password is required"]
                  /\ users' = users /\ used' = used /\ stale' = stale
                  /\ GoodLink(m.uid, m.token)'
                  /\ check_token(m.pk, users[m.pk], m.token)'
             ELSE /\ resp'.status = HTTP_200_OK
                  /\ check_password(users'[m.pk], resp'.data.new_password)
      ]_vars

\* A confirm without the new_password field was answered, and its link is
\* still good
C25_Witness ==
    /\ IsConfirm(resp)
    /\ ~Has(resp.data, "new_password")
    /\ resp.status = HTTP_400_BAD_REQUEST
    /\ resp.body = [error |-> "New password is required"]
    /\ GoodLink(resp.data.uidb64, resp.data.token)

====
